---- MODULE Spec2Model ----
(***************************************************************************)
(* Model of the GeoContext Generator API (src/main.py): the zonal          *)
(* statistics and land-cover engines, the four-source generate_context     *)
(* request, the progress stream described by the design, and the           *)
(* last-analysis store behind POST /analyze and GET /analysis.             *)
(*                                                                         *)
(* Numbers.  A Python float is kept exact as a pair <<num, den>> standing  *)
(* for num/den; NaN is the pair <<0, 0>>, which is what a mean over no     *)
(* element evaluates to.  Percentages are kept in hundredths of a percent  *)
(* and temperatures in hundredths of a degree.                             *)
(***************************************************************************)
EXTENDS Integers, Sequences, FiniteSets, TLC

VARIABLES
    pc,             \* generate_context: the section the request is at
    stats,          \* generate_context: dem_stats, lst_stats, ndvi_stats, lc_stats once assigned
    outcome,        \* what the collaborators did for each source of this request
    fetched,        \* sources for which this request called an engine or loaded a cube
    response,       \* what generate_context answered
    call,           \* arguments of the latest direct call of an engine
    result,         \* what that call returned
    events,         \* progress stream: the events emitted so far
    streamPc,       \* progress stream: position of the producer
    last_analysis,  \* the module global written by analyze
    log             \* the /analyze and /analysis requests served, with their replies

vars == <<pc, stats, outcome, fetched, response, call, result,
          events, streamPc, last_analysis, log>>

requestVars == <<pc, stats, outcome, fetched, response>>
engineVars == <<call, result>>
streamVars == <<events, streamPc>>
storeVars == <<last_analysis, log>>

(***************************************************************************)
(* Bounds of the model.                                                    *)
(***************************************************************************)
MaxWindow == 3      \* pixels of a clipped window
MaxPixel == 2       \* pixel values range over 0..MaxPixel
MaxClasses == 215   \* pixels of a land-cover window whose pixels all differ
MaxCube == 3        \* elements of a loaded space-time cube
MaxScale == 2       \* per-band scale factors range over 1..MaxScale
MaxRequests == 4    \* requests served by the last-analysis store
MaxRequestWindow == 1   \* pixels of a window clipped within a generate_context request
MaxRequestCube == 1     \* elements of a cube loaded within a generate_context request

(***************************************************************************)
(* Floats and the numpy reductions used by the engines.                    *)
(***************************************************************************)
NaN == <<0, 0>>

Float(v) == <<v, 1>>

IsNaN(f) == f[2] = 0

\* the sum of a sequence of integers, by halves
RECURSIVE SumSeq(_)
SumSeq(s) ==
    IF Len(s) = 0 THEN 0
    ELSE IF Len(s) = 1 THEN s[1]
    ELSE LET h == Len(s) \div 2
         IN  SumSeq(SubSeq(s, 1, h)) + SumSeq(SubSeq(s, h + 1, Len(s)))

\* the elements of arr that are not NaN, as their numerators (every element
\* of an array is an integer-valued float or NaN)
Populated(arr) == SelectSeq(arr, LAMBDA f : ~IsNaN(f))

Numerators(arr) == [i \in 1..Len(Populated(arr)) |-> Populated(arr)[i][1]]

SetMin(S) == CHOOSE m \in S : \A v \in S : m <= v

SetMax(S) == CHOOSE m \in S : \A v \in S : v <= m

Range(s) == {s[i] : i \in 1..Len(s)}

\* np.nanmean: the mean of the elements that are not NaN; NaN (0/0, with a
\* RuntimeWarning and no exception) when there is none
nanmean(arr) == <<SumSeq(Numerators(arr)), Len(Numerators(arr))>>

\* np.nanmin / np.nanmax: NaN with a RuntimeWarning when every element is NaN
nanmin(arr) ==
    IF Numerators(arr) = <<>> THEN NaN ELSE Float(SetMin(Range(Numerators(arr))))

nanmax(arr) ==
    IF Numerators(arr) = <<>> THEN NaN ELSE Float(SetMax(Range(Numerators(arr))))

\* np.nanstd, kept as its radicand, the population variance
\* (n * sum(v^2) - sum(v)^2) / n^2
nanstd(arr) ==
    LET v == Numerators(arr)
        n == Len(v)
        sq == [i \in 1..n |-> v[i] * v[i]]
    IN  <<n * SumSeq(sq) - SumSeq(v) * SumSeq(v), n * n>>

(***************************************************************************)
(* Rasters.  A raster source is the window mask() crops to: each pixel has *)
(* its stored value and whether it lies inside the polygon.  The source    *)
(* may declare a nodata value or none (src.nodata is None).                *)
(***************************************************************************)
Pixels == [val : 0..MaxPixel, inside : BOOLEAN]

Windows == UNION {[1..n -> Pixels] : n \in 1..MaxWindow}

\* scenario A of the design: a 3x3 grid of elevations 100..108, all inside
GridA == [i \in 1..9 |-> [val |-> 99 + i, inside |-> TRUE]]

Rasters ==
    [hasNodata : BOOLEAN, nodata : {0}, window : Windows]
        \cup {[hasNodata |-> TRUE, nodata |-> 0, window |-> GridA]}

\* outcomes of signing, opening and clipping a raster
IoOutcomes == {"ok", "sign_failed", "open_failed", "clip_failed"}

\* mask() as it would be had the pixels outside the shapes kept their values
mask_unfilled(src) == [i \in 1..Len(src.window) |-> src.window[i].val]

\* rasterio.mask.mask(src, shapes, crop=True, nodata=src.nodata): pixels
\* outside the shapes are filled with the nodata value, 0 when the dataset
\* declares none
mask(src) ==
    LET fill == IF src.hasNodata THEN src.nodata ELSE 0
    IN  [i \in 1..Len(src.window) |->
            IF src.window[i].inside THEN src.window[i].val ELSE fill]

\* arr = clipped[0].astype(float); arr[arr == src.nodata] = np.nan
MissingAsNaN(clipped, src) ==
    [i \in 1..Len(clipped) |->
        IF src.hasNodata /\ clipped[i] = src.nodata THEN NaN ELSE Float(clipped[i])]

compute_raster_stats(io, src) ==
    IF io # "ok"
    THEN [error |-> io]
    ELSE LET arr == MissingAsNaN(mask(src), src)
         IN  [mean |-> nanmean(arr), min |-> nanmin(arr),
              max |-> nanmax(arr), std |-> nanstd(arr)]

\* round(x, 2) of the quotient num/den taken in hundredths (num is the
\* quotient's numerator times 100): Python rounds the float to the nearest
\* hundredth, a tie going to the even neighbour
round2(num, den) ==
    LET q == num \div den
        r == num % den
    IN  IF 2 * r < den THEN q
        ELSE IF 2 * r > den THEN q + 1
        ELSE IF q % 2 = 0 THEN q ELSE q + 1

\* the selection as it would be had nodata pixels stayed in the array
ValidClasses_keeping_nodata(clipped, src) == clipped

\* arr = clipped[0].astype(int); arr = arr[arr != src.nodata]
ValidClasses(clipped, src) ==
    SelectSeq(clipped, LAMBDA v : ~(src.hasNodata /\ v = src.nodata))

\* collections.Counter(arr.flatten())
Counter(arr) ==
    [k \in Range(arr) |-> Cardinality({i \in 1..Len(arr) : arr[i] = k})]

\* {str(k): round((v / total) * 100, 2) for k, v in counts.items()}, each
\* percentage in hundredths of a percent
Percentages(counts, total) ==
    [key \in {ToString(k) : k \in DOMAIN counts} |->
        LET k == CHOOSE c \in DOMAIN counts : ToString(c) = key
        IN  round2(counts[k] * 100 * 100, total)]

compute_landcover_percentages(io, src) ==
    IF io # "ok"
    THEN [error |-> io]
    ELSE LET arr == ValidClasses(mask(src), src)
             total == Len(arr)
             counts == Counter(arr)
         IN  Percentages(counts, total)

\* land-cover windows of one nodata pixel and n pixels, each of its own
\* class 1..n
DistinctClasses(n) ==
    [hasNodata |-> TRUE, nodata |-> 0,
     window |-> [i \in 1..(n + 1) |-> [val |-> i - 1, inside |-> TRUE]]]

LandcoverRasters == Rasters \cup {DistinctClasses(n) : n \in 1..MaxClasses}

(***************************************************************************)
(* generate_context: the four sections, run in this order, then the        *)
(* response.  Nothing in the handler catches an exception: one raised by   *)
(* a section's own statements ends the request with a server error.        *)
(***************************************************************************)
Keys == <<"dem", "temperature", "ndvi", "landcover">>

KeySet == {Keys[i] : i \in 1..Len(Keys)}

Empty == [k \in {} |-> 0]

\* Kelvin to Celsius, 273.15, in hundredths of a degree
KelvinOffset == 27315

\* the rasters a request is given
RequestRasters ==
    [hasNodata : BOOLEAN, nodata : {0},
     window : UNION {[1..n -> Pixels] : n \in 1..MaxRequestWindow}]

\* raw values of a loaded space-time cube: 0 is the invalid sentinel of LST
Cubes == UNION {[1..n -> 0..MaxPixel] : n \in 0..MaxCube}

\* the cubes a request loads
RequestCubes == UNION {[1..n -> 0..MaxPixel] : n \in 0..MaxRequestCube}

\* scale factors, in hundredths per count
Scales == 1..MaxScale

\* dem_stats as it would be without the "if dem_items" guard
dem_stats_unguarded(items, io, src) == compute_raster_stats(io, src)

\* dem_stats = compute_raster_stats(dem_items[0].assets["elevation"].href, geojson)
\*             if dem_items else {}
dem_stats(items, io, src) ==
    IF items THEN compute_raster_stats(io, src) ELSE Empty

\* arr = (values * scale) - 273.15; arr = np.where(raw_arr == 0, np.nan, arr)
lst_celsius(values, scale) ==
    [i \in 1..Len(values) |->
        IF values[i] = 0 THEN NaN ELSE Float(values[i] * scale - KelvinOffset)]

\* the body of "if lst_items:" once the cube is loaded
lst_stats(values, scale) ==
    IF Len(values) > 0
    THEN LET arr == lst_celsius(values, scale)
         IN  [annual_mean_C |-> nanmean(arr), min_C |-> nanmin(arr),
              max_C |-> nanmax(arr)]
    ELSE Empty

\* the body of "if ndvi_items:" once the cube is loaded
ndvi_stats(values, scale) ==
    IF Len(values) > 0
    THEN LET arr == [i \in 1..Len(values) |-> Float(values[i] * scale)]
         IN  [annual_mean |-> nanmean(arr)]
    ELSE Empty

\* lc_stats = compute_landcover_percentages(lc_items[0].assets["map"].href, geojson)
\*            if lc_items else {}
lc_stats(items, io, src) ==
    IF items THEN compute_landcover_percentages(io, src) ELSE Empty

\* an exception leaves the handler: the section's locals are lost
Raise(key, why) ==
    /\ pc' = "raised"
    /\ outcome' = outcome @@ (key :> why)
    /\ response' = [status |-> 500]
    /\ UNCHANGED <<stats, fetched>>

\* a section ends with its local assigned and the next section starts
Assign(key, why, value, next) ==
    /\ pc' = next
    /\ outcome' = outcome @@ (key :> why)
    /\ stats' = stats @@ (key :> value)
    /\ UNCHANGED response

\* bbox, time_range and the catalog client; a ring without coordinates or a
\* catalog that cannot be opened rejects the request before any section
Start ==
    /\ pc = "idle"
    /\ \E accepted \in BOOLEAN :
        IF accepted
        THEN pc' = "dem" /\ UNCHANGED response
        ELSE pc' = "rejected" /\ response' = [status |-> 500]
    /\ UNCHANGED <<stats, outcome, fetched, engineVars, streamVars, storeVars>>

\* outcomes of a single-raster section once the search has answered: no
\* item, an item without the asset, or an item whose raster goes to the engine
RasterOutcomes == {"zero_items", "asset_missing"} \cup IoOutcomes

\* the rasters that tell the outcomes of a section apart: only a raster that
\* is signed, opened and clipped is read (with no item the engine is not
\* called, and the io outcome handed to dem_stats or lc_stats is unused)
RastersRead(how) ==
    IF how = "ok" THEN RequestRasters ELSE {CHOOSE r \in RequestRasters : TRUE}

Dem ==
    /\ pc = "dem"
    /\ \/ Raise("dem", "search_failed")
       \/ \E how \in RasterOutcomes : \E src \in RastersRead(how) :
            IF how = "asset_missing"
            THEN Raise("dem", how)
            ELSE /\ Assign("dem", how,
                           dem_stats(how # "zero_items",
                                     IF how = "zero_items" THEN "ok" ELSE how, src),
                           "temperature")
                 /\ fetched' = IF how = "zero_items" THEN fetched
                               ELSE fetched \cup {"dem"}
    /\ UNCHANGED <<engineVars, streamVars, storeVars>>

\* outcomes of a composite section once the search has answered: no item,
\* or items whose signing, loading or scale lookup fails, or a loaded cube
LoadOutcomes == {"zero_items", "sign_failed", "load_failed", "scale_missing", "ok"}

\* the cubes and scales that tell the outcomes of a section apart: the scale
\* is looked up only for a cube that has elements
CubesRead(how) ==
    IF how = "ok" THEN RequestCubes
    ELSE IF how = "scale_missing" THEN {CHOOSE c \in RequestCubes : Len(c) > 0}
    ELSE {<<>>}

ScalesRead(how, values) ==
    IF how = "ok" /\ Len(values) > 0 THEN Scales ELSE {CHOOSE sc \in Scales : TRUE}

Temperature ==
    /\ pc = "temperature"
    /\ \/ Raise("temperature", "search_failed")
       \/ \E how \in LoadOutcomes : \E values \in CubesRead(how) :
          \E scale \in ScalesRead(how, values) :
            IF how = "zero_items"
            THEN Assign("temperature", how, Empty, "ndvi") /\ UNCHANGED fetched
            ELSE IF how # "ok"
            THEN Raise("temperature", how)
            ELSE /\ Assign("temperature", how, lst_stats(values, scale), "ndvi")
                 /\ fetched' = fetched \cup {"temperature"}
    /\ UNCHANGED <<engineVars, streamVars, storeVars>>

Ndvi ==
    /\ pc = "ndvi"
    /\ \/ Raise("ndvi", "search_failed")
       \/ \E how \in LoadOutcomes : \E values \in CubesRead(how) :
          \E scale \in ScalesRead(how, values) :
            IF how = "zero_items"
            THEN Assign("ndvi", how, Empty, "landcover") /\ UNCHANGED fetched
            ELSE IF how # "ok"
            THEN Raise("ndvi", how)
            ELSE /\ Assign("ndvi", how, ndvi_stats(values, scale), "landcover")
                 /\ fetched' = fetched \cup {"ndvi"}
    /\ UNCHANGED <<engineVars, streamVars, storeVars>>

Landcover ==
    /\ pc = "landcover"
    /\ \/ Raise("landcover", "search_failed")
       \/ \E how \in RasterOutcomes : \E src \in RastersRead(how) :
            IF how = "asset_missing"
            THEN Raise("landcover", how)
            ELSE /\ Assign("landcover", how,
                           lc_stats(how # "zero_items",
                                    IF how = "zero_items" THEN "ok" ELSE how, src),
                           "return")
                 /\ fetched' = IF how = "zero_items" THEN fetched
                               ELSE fetched \cup {"landcover"}
    /\ UNCHANGED <<engineVars, streamVars, storeVars>>

\* return ContextResponse(summary={"dem": dem_stats, "temperature": lst_stats,
\*                                 "ndvi": ndvi_stats, "landcover": lc_stats})
Return ==
    /\ pc = "return"
    /\ pc' = "done"
    /\ response' = [status |-> 200,
                    summary |-> [dem |-> stats["dem"],
                                 temperature |-> stats["temperature"],
                                 ndvi |-> stats["ndvi"],
                                 landcover |-> stats["landcover"]]]
    /\ UNCHANGED <<stats, outcome, fetched, engineVars, streamVars, storeVars>>

(***************************************************************************)
(* Progress stream, as the design describes it: a "starting" event, one    *)
(* "searching <source>" event immediately before each of the four          *)
(* pipelines begins, then one terminal event carrying the complete         *)
(* summary, after which the channel is closed.  A pipeline of the stream   *)
(* ends in a source result: statistics, the empty mapping or an error      *)
(* marker.                                                                 *)
(***************************************************************************)
StreamResults ==
    {Empty, [error |-> "source_failed"], [mean |-> Float(MaxPixel)]}

StageEvent(name) == [type |-> "stage", name |-> name]

SummaryEvent(summary) == [type |-> "summary", name |-> "summary", summary |-> summary]

\* an emitter that puts the newest event first
Emit_newest_first(ev) == events' = <<ev>> \o events

Emit(ev) == events' = Append(events, ev)

At(at, source) == [at |-> at, source |-> source]

StreamStart ==
    /\ streamPc = At("idle", 0)
    /\ Emit(StageEvent("starting"))
    /\ streamPc' = At("announce", 1)
    /\ UNCHANGED <<requestVars, engineVars, storeVars>>

StreamAnnounce ==
    /\ streamPc.at = "announce"
    /\ Emit(StageEvent(Keys[streamPc.source]))
    /\ streamPc' = At("run", streamPc.source)
    /\ UNCHANGED <<requestVars, engineVars, storeVars>>

StreamRun ==
    /\ streamPc.at = "run"
    /\ \E r \in StreamResults : stats' = stats @@ (Keys[streamPc.source] :> r)
    /\ streamPc' = IF streamPc.source < Len(Keys)
                   THEN At("announce", streamPc.source + 1)
                   ELSE At("summarise", 0)
    /\ UNCHANGED <<pc, outcome, fetched, response, events, engineVars, storeVars>>

StreamSummary ==
    /\ streamPc.at = "summarise"
    /\ Emit(SummaryEvent(stats))
    /\ streamPc' = At("closed", 0)
    /\ UNCHANGED <<requestVars, engineVars, storeVars>>

(***************************************************************************)
(* The last-analysis store.  The module never binds last_analysis: only    *)
(* analyze does, through its global statement.                             *)
(***************************************************************************)
None == [none |-> TRUE]

\* bodies a client posts to /analyze: summaries, and a body whose summary
\* is not a mapping
PostedSummaries ==
    {[dem |-> Empty, temperature |-> Empty, ndvi |-> Empty, landcover |-> Empty],
     [dem |-> [error |-> "open_failed"], temperature |-> Empty, ndvi |-> Empty,
      landcover |-> ("1" :> 10000)]}

PostedBodies == PostedSummaries \cup {None}

\* analyze as it would be had it kept a summary already stored
analyze_keeping_first(la, summary) ==
    IF la.defined THEN la ELSE [defined |-> TRUE, summary |-> summary]

\* last_analysis = {"summary": context.summary}
analyze(la, summary) == [defined |-> TRUE, summary |-> summary]

\* the body of get_analysis; reading the unbound global raises NameError
get_analysis(la) ==
    IF ~la.defined
    THEN [status |-> 500, body |-> [error |-> "NameError"]]
    ELSE IF la.summary = None
    THEN [status |-> 200,
          body |-> [message |-> "No analysis available yet. Please POST to /analyze first."]]
    ELSE [status |-> 200, body |-> [summary |-> la.summary]]

\* POST /analyze; a body that is no ContextResponse (summary: Dict[str, Any])
\* is refused by validation before the handler runs
PostAnalyze ==
    /\ Len(log) < MaxRequests
    /\ \E sent \in PostedBodies :
        IF sent = None
        THEN /\ log' = Append(log, [op |-> "POST", sent |-> sent, status |-> 422,
                                    body |-> [error |-> "validation"]])
             /\ UNCHANGED last_analysis
        ELSE /\ last_analysis' = analyze(last_analysis, sent)
             /\ log' = Append(log, [op |-> "POST", sent |-> sent, status |-> 200,
                                    body |-> [summary |-> sent]])
    /\ UNCHANGED <<requestVars, engineVars, streamVars>>

\* GET /analysis
GetAnalysis ==
    /\ Len(log) < MaxRequests
    /\ log' = Append(log, [op |-> "GET", sent |-> None,
                           status |-> get_analysis(last_analysis).status,
                           body |-> get_analysis(last_analysis).body])
    /\ UNCHANGED <<last_analysis, requestVars, engineVars, streamVars>>

(***************************************************************************)
(* Direct calls of the engines.                                            *)
(***************************************************************************)
NoCall == [fn |-> "none"]

Pending == [pending |-> TRUE]

RasterStatsCalls ==
    [fn : {"compute_raster_stats"}, io : IoOutcomes, src : Rasters]

\* a caller evaluates compute_raster_stats(asset_href, geojson)
CallRasterStats ==
    /\ call.fn = "compute_raster_stats"
    /\ result = Pending
    /\ result' = compute_raster_stats(call.io, call.src)
    /\ UNCHANGED <<call, requestVars, streamVars, storeVars>>

InitIdle ==
    /\ pc = "idle"
    /\ stats = Empty
    /\ outcome = Empty
    /\ fetched = {}
    /\ response = [status |-> 0]
    /\ events = <<>>
    /\ streamPc = At("idle", 0)
    /\ last_analysis = [defined |-> FALSE]
    /\ log = <<>>

InitStats ==
    /\ InitIdle
    /\ call \in RasterStatsCalls
    /\ result = Pending

LandcoverCalls ==
    [fn : {"compute_landcover_percentages"}, io : IoOutcomes, src : LandcoverRasters]

\* a caller evaluates compute_landcover_percentages(asset_href, geojson)
CallLandcoverPercentages ==
    /\ call.fn = "compute_landcover_percentages"
    /\ result = Pending
    /\ result' = compute_landcover_percentages(call.io, call.src)
    /\ UNCHANGED <<call, requestVars, streamVars, storeVars>>

InitLandcover ==
    /\ InitIdle
    /\ call \in LandcoverCalls
    /\ result = Pending

NextLandcover == CallLandcoverPercentages

SpecLandcover == InitLandcover /\ [][NextLandcover]_vars

LstStatsCalls == [fn : {"lst_stats"}, values : Cubes, scale : Scales]

\* the temperature section reduces a loaded cube
CallLstStats ==
    /\ call.fn = "lst_stats"
    /\ result = Pending
    /\ result' = lst_stats(call.values, call.scale)
    /\ UNCHANGED <<call, requestVars, streamVars, storeVars>>

InitComposite ==
    /\ InitIdle
    /\ call \in LstStatsCalls
    /\ result = Pending

NextComposite == CallLstStats

SpecComposite == InitComposite /\ [][NextComposite]_vars

NextStats == CallRasterStats

Init ==
    /\ InitIdle
    /\ call = NoCall
    /\ result = Pending

Next == Start \/ Dem \/ Temperature \/ Ndvi \/ Landcover \/ Return

Spec == Init /\ [][Next]_vars

NextStream == StreamStart \/ StreamAnnounce \/ StreamRun \/ StreamSummary

SpecStream == Init /\ [][NextStream]_vars

NextStore == PostAnalyze \/ GetAnalysis

SpecStore == Init /\ [][NextStore]_vars

SpecStats == InitStats /\ [][NextStats]_vars

(***************************************************************************)
(* Properties of the engines.                                              *)
(***************************************************************************)
\* values of the pixels of src that lie inside the polygon and are not the
\* declared nodata value
InsideValues(src) ==
    LET kept == SelectSeq(src.window,
                    LAMBDA px : px.inside /\ ~(src.hasNodata /\ px.val = src.nodata))
    IN  [i \in 1..Len(kept) |-> kept[i].val]

\* every pixel of the clip is missing: it equals the declared nodata value
AllMissing(src) == src.hasNodata /\ Range(mask(src)) = {src.nodata}

StatsReturned ==
    call.fn = "compute_raster_stats" /\ result # Pending

IsErrorMarker(r) == DOMAIN r = {"error"}

\* C4: compute_raster_stats returns an error marker whenever the raster
\* cannot be signed, opened or clipped, and whenever every clipped pixel
\* equals the raster's nodata value.
C4_ErrorMarkerOnFailureOrAllMissing ==
    StatsReturned /\ (call.io # "ok" \/ AllMissing(call.src))
        => IsErrorMarker(result)

PercentagesReturned ==
    /\ call.fn = "compute_landcover_percentages"
    /\ result # Pending
    /\ call.io = "ok"

\* the sum of the percentages of r, whose keys are class codes 0..top as text
SumPercentages(r, top) ==
    SumSeq([i \in 1..(top + 1) |->
                IF ToString(i - 1) \in DOMAIN r THEN r[ToString(i - 1)] ELSE 0])

TopClass == IF MaxClasses > MaxPixel THEN MaxClasses ELSE MaxPixel

PercentageSum == SumPercentages(result, TopClass)

Abs(x) == IF x < 0 THEN -x ELSE x

\* the class codes of a clip that are not the raster's nodata value
ClassesPresent(src, clip) ==
    Range(clip) \ (IF src.hasNodata THEN {src.nodata} ELSE {})

PixelsOfClass(clip, c) == Cardinality({i \in 1..Len(clip) : clip[i] = c})

PixelsOfClasses(clip, classes) ==
    Cardinality({i \in 1..Len(clip) : clip[i] \in classes})

ValidPixelCount(src) == PixelsOfClasses(mask(src), ClassesPresent(src, mask(src)))

\* what C7 and its amendment share: one entry per class present, each the
\* class's share of the pixels that are not nodata, rounded to two decimals,
\* and in [0, 100]
SharesOf(r, clip, classes, valid) ==
    /\ DOMAIN r = {ToString(c) : c \in classes}
    /\ \A c \in classes :
        /\ r[ToString(c)] = round2(PixelsOfClass(clip, c) * 10000, valid)
        /\ r[ToString(c)] \in 0..10000

PercentagesOverValidPixels ==
    LET clip == mask(call.src)
        classes == ClassesPresent(call.src, clip)
    IN  SharesOf(result, clip, classes, PixelsOfClasses(clip, classes))

\* C7: with at least one pixel different from nodata, the percentages
\* exclude nodata pixels from the denominator, each lies in [0, 100], and
\* their sum lies within [99.0, 101.0] for any number of distinct classes.
C7_SumWithinOnePercent ==
    PercentagesReturned /\ ValidPixelCount(call.src) >= 1
        => /\ PercentagesOverValidPixels
           /\ PercentageSum \in 9900..10100

\* C7 amended: the sum deviates from 100 by at most 0.005 for each distinct
\* class, so it lies within [99.0, 101.0] whenever at most 200 distinct
\* classes are present.
C7_SumWithinHalfCentPerClass ==
    PercentagesReturned /\ ValidPixelCount(call.src) >= 1
        => /\ PercentagesOverValidPixels
           /\ 2 * Abs(PercentageSum - 10000)
                    <= Cardinality(DOMAIN result)
           /\ Cardinality(DOMAIN result) <= 200
                    => PercentageSum \in 9900..10100

\* C7 witness: percentages were returned for a clip with a nodata pixel and
\* several classes whose rounded percentages do not sum to 100.00.
C7_Witness ==
    /\ PercentagesReturned
    /\ call.src.hasNodata
    /\ call.src.nodata \in Range(mask(call.src))
    /\ Cardinality(DOMAIN result) >= 2
    /\ PercentageSum # 10000

(***************************************************************************)
(* Properties of generate_context.                                         *)
(***************************************************************************)
\* the outcomes that are failures of a collaborator
Failures ==
    {"search_failed", "asset_missing", "sign_failed", "open_failed",
     "clip_failed", "load_failed", "scale_missing"}

Failed(key) == key \in DOMAIN outcome /\ outcome[key] \in Failures

\* C1: whatever the four source pipelines do, generate_context answers with
\* a summary whose keys are exactly dem, temperature, ndvi and landcover,
\* and it never raises because of a failure of one source.
C1_FourKeysNeverRaises ==
    /\ pc # "raised"
    /\ pc = "done" =>
            response.status = 200 /\ DOMAIN response.summary = KeySet

\* C2: a failure of one pipeline is caught at that pipeline's boundary and
\* becomes its error marker, and the other three pipelines still run and
\* are reported in the summary.
C2_FailureIsolatedPerPipeline ==
    \A key \in KeySet :
        Failed(key) =>
            /\ key \in DOMAIN stats
            /\ IsErrorMarker(stats[key])
            /\ pc \in {"temperature", "ndvi", "landcover", "return", "done"}

ValidCelsius ==
    LET kept == SelectSeq(call.values, LAMBDA v : v # 0)
    IN  [i \in 1..Len(kept) |-> kept[i] * call.scale - KelvinOffset]

\* C5: pixels of raw value 0 never contribute to annual_mean_C, min_C or
\* max_C, and when the cube has no populated element or every pixel is 0
\* the temperature result is the empty mapping, with no NaN statistic.
C5_SentinelExcludedNoNaN ==
    call.fn = "lst_stats" /\ result # Pending =>
        IF ValidCelsius = <<>>
        THEN result = Empty
        ELSE /\ result.annual_mean_C = <<SumSeq(ValidCelsius), Len(ValidCelsius)>>
             /\ result.min_C = Float(SetMin(Range(ValidCelsius)))
             /\ result.max_C = Float(SetMax(Range(ValidCelsius)))

(***************************************************************************)
(* Properties of the progress stream.                                      *)
(***************************************************************************)
StreamOrder == <<"starting", "dem", "temperature", "ndvi", "landcover", "summary">>

Accepted(i) == log[i].op = "POST" /\ log[i].status = 200

\* the requests before the i-th that were accepted POSTs
PostsBefore(i) == {j \in 1..(i - 1) : Accepted(j)}

\* the summary of the most recent accepted POST before the i-th request
LatestBefore(i) == log[SetMax(PostsBefore(i))].sent

\* C9: once a POST /analyze was served, the store holds exactly the summary
\* of the most recent POST, whatever GETs were served since, and every
\* GET /analysis after a POST answers with the summary of the most recent
\* POST before it.
C9_StoreHoldsMostRecentPost ==
    /\ PostsBefore(Len(log) + 1) # {} =>
            last_analysis = [defined |-> TRUE, summary |-> LatestBefore(Len(log) + 1)]
    /\ \A i \in 1..Len(log) :
        log[i].op = "GET" /\ PostsBefore(i) # {} =>
            /\ log[i].status = 200
            /\ log[i].body = [summary |-> LatestBefore(i)]

\* C9 witness: two POSTs of different summaries, then a GET after another
\* GET, answered with the second summary.
C9_Witness ==
    \E i, j, k, l \in 1..Len(log) :
        /\ i < j /\ j < k /\ k < l
        /\ Accepted(i) /\ Accepted(j) /\ log[i].sent # log[j].sent
        /\ log[k].op = "GET" /\ log[l].op = "GET"
        /\ log[l].body = [summary |-> log[j].sent]

\* C10: GET /analysis served before any POST /analyze answers normally with
\* the message "No analysis available yet. Please POST to /analyze first."
C10_GetBeforePostAnswersMessage ==
    \A i \in 1..Len(log) :
        log[i].op = "GET" /\ PostsBefore(i) = {} =>
            /\ log[i].status = 200
            /\ log[i].body =
                [message |-> "No analysis available yet. Please POST to /analyze first."]

====
